---- MODULE Spec2Model ----
(***************************************************************************)
(* DVB text decoding (ETSI EN 300 468 Annex A) as implemented by           *)
(* dvb_decode_text, decode_text, decode_iso6937 and dvb_decode_short_name  *)
(* in dvbdescriptors.cpp.                                                  *)
(*                                                                         *)
(* A caller builds a raw text field byte by byte, then calls one of the    *)
(* two public entry points.  Each call is one atomic action; what the call *)
(* did (bytes read, scratch buffer, collaborators invoked, result) is      *)
(* recorded in the variable tr.  A second specification runs the loops of  *)
(* the decoders one iteration at a time, a third the callers of            *)
(* ContentDescriptor::GetDescription, a fourth                             *)
(* ExtendedEventDescriptor::Items.                                         *)
(*                                                                         *)
(* Bytes are the integers 0..255.  A C array read buf[i] is 0-based; the   *)
(* sequences of this module are 1-based, so buf[i] in the code is          *)
(* buf[i + 1] here.  A read beyond the end of a buffer yields whatever the *)
(* memory holds: the bytes env.oob, chosen nondeterministically.           *)
(***************************************************************************)
EXTENDS Integers, Sequences, FiniteSets, TLC

VARIABLES
    src,    \* the raw field handed to the call (raw_length = Len(src))
    ovr,    \* the encoding override handed to dvb_decode_text
    op,     \* "none", "text" (dvb_decode_text) or "short" (dvb_decode_short_name)
    pc,     \* "input": the caller is building the field; "done": a call returned
    tr,     \* what the call did, and its result
    loop,   \* one loop of the decoders, run iteration by iteration
    cat,    \* ContentDescriptor's category table, its flag, lock and callers
    items   \* one run of ExtendedEventDescriptor::Items

vars == <<src, ovr, op, pc, tr, loop, cat, items>>

----------------------------------------------------------------------------
\* Bounds of the model

\* longest field the caller builds byte by byte
MaxLen == 3
\* longest prefix the caller pads up to the short-name limit
PadPrefix == 1

\* leading bytes the caller may choose: one or more of every selector class
\* 0x00 0x01 0x0B 0x0C 0x10 0x11 0x12 0x13 0x14 0x15 0x16 0x1E 0x1F 0x20 0x41
\* 0x85 0x86 0x8A 0xC1
FirstBytes == {0, 1, 11, 12, 16, 17, 18, 19, 20, 21, 22, 30, 31, 32, 65,
               133, 134, 138, 193}
\* following bytes: 0x00 0x01 0x10 0x13 0x41 0x85 0x86 0x87 0x8A 0xC1
BodyBytes == {0, 1, 16, 19, 65, 133, 134, 135, 138, 193}
\* longer literal fields: the control-stripping example, a UCS-2 field of
\* length 5 and one of length 6, an explicit code page with data, an
\* emphasised short name
Examples == { <<65, 138, 133, 66>>,
              <<17, 0, 65, 138, 66>>,
              <<17, 0, 65, 138, 66, 153>>,
              <<16, 0, 5, 65, 66>>,
              <<5, 134, 65, 138, 135, 66>> }

\* overrides a caller may pass: (pointer non-null?, bytes, length)
NoOverride == [ptr |-> FALSE, bytes |-> <<>>, len |-> 0]
Overrides == { NoOverride,
               [ptr |-> FALSE, bytes |-> <<>>, len |-> 3],
               [ptr |-> TRUE, bytes |-> <<>>, len |-> 0],
               [ptr |-> TRUE, bytes |-> <<16, 0, 1>>, len |-> 3],
               [ptr |-> TRUE, bytes |-> <<16, 0, 16>>, len |-> 3],
               [ptr |-> TRUE, bytes |-> <<5>>, len |-> 1] }

----------------------------------------------------------------------------
\* Strings (QString) and the external collaborators

\* The empty QString.
Empty == [dec |-> "none", page |-> 0, data |-> <<>>]

\* The text a decoder dec (with code page `page`) makes of `data`: decoders
\* outside this file are not interpreted, a decoder given no data returns "".
Decoded(dec, page, data) ==
    IF data = <<>> THEN Empty ELSE [dec |-> dec, page |-> page, data |-> data]

\* What a build can return from a decoder handed a negative count or a
\* pointer beyond its buffer: nothing, some text, or no return at all.
Garbled == [dec |-> "garbage", page |-> 0, data |-> <<63>>]
Crashed == [dec |-> "crash", page |-> 0, data |-> <<>>]
GarbageOut == {Empty, Garbled, Crashed}

\* Bytes found beyond the end of a buffer (two are read at most).
OobMem == { <<0, 5>>, <<0, 16>>, <<19, 65>> }

Envs == [oob : OobMem, garbage : GarbageOut]

\* buf[i] of the code
At(buf, i, env) ==
    IF i < Len(buf) THEN buf[i + 1] ELSE env.oob[i - Len(buf) + 1]

\* s_iso8859Codecs[idx]: the part of ISO 8859 the entry decodes
\* ("Latin1" is ISO 8859-1).
s_iso8859Codecs(idx) == IF idx = 0 THEN 1 ELSE idx

\* codec->toUnicode(buf + off, cnt), QString::fromLocal8Bit(buf + off, cnt),
\* QString::fromUtf8(buf + off, cnt); cnt is the uint length - off converted
\* to the int the callee takes, so a wrapped count arrives negative.
External(dec, page, buf, off, cnt, env) ==
    IF cnt = 0 THEN Empty
    ELSE IF cnt < 0 \/ off + cnt > Len(buf) THEN env.garbage
    ELSE Decoded(dec, page, SubSeq(buf, off + 1, off + cnt))

\* freesat_huffman_to_string(src, raw_length)
freesat_huffman_to_string(buf, length) ==
    [dec |-> "huffman", page |-> 0, data |-> SubSeq(buf, 1, length)]

----------------------------------------------------------------------------
\* decode_iso6937 and its tables

\* iso6937table_base[b]: the code point of byte b, or 0xFFFF (65535) when b
\* is the accent half of a two byte character (0xC1..0xCF).
iso6937table_base(b) == IF b >= 193 /\ b <= 207 THEN 65535 ELSE b

\* iso6937table_secondary[a][b]: the composed code point of accent a and
\* letter b, or 0xFFFF when there is none (grave accent 0xC1 with A, a).
iso6937table_secondary(a, b) ==
    IF a = 193 /\ b = 65 THEN 192
    ELSE IF a = 193 /\ b = 97 THEN 224
    ELSE 65535

\* Iso6937Step moving on without i++ when the second byte is reprocessed
Iso6937Step_revisit(buf, i, ch) ==
    LET b == buf[i + 1]
        pending == ch = 65535
        sec == IF pending THEN iso6937table_secondary(buf[i], b) ELSE 65535
        ch2 == IF pending /\ sec # 65535 THEN sec ELSE iso6937table_base(b)
    IN  [ch |-> ch2,
         emit |-> IF ch2 = 65535 THEN <<>> ELSE <<ch2>>,
         secondary |-> pending,
         reprocessed |-> pending /\ sec = 65535,
         next |-> IF pending /\ sec = 65535 THEN i ELSE i + 1]

\* Iso6937Step emitting the sentinel when the reprocessed byte is an accent
Iso6937Step_emit(buf, i, ch) ==
    LET b == buf[i + 1]
        pending == ch = 65535
        sec == IF pending THEN iso6937table_secondary(buf[i], b) ELSE 65535
        ch2 == IF pending /\ sec # 65535 THEN sec ELSE iso6937table_base(b)
    IN  [ch |-> ch2,
         emit |-> IF ch2 = 65535 /\ ~pending THEN <<>> ELSE <<ch2>>,
         secondary |-> pending,
         reprocessed |-> pending /\ sec = 65535,
         next |-> i + 1]

\* The body of the for loop of decode_iso6937 for byte i with pending ch:
\* the new ch, what is added to result, whether the secondary table was
\* consulted, whether the byte was reprocessed as a first byte, and i after
\* the loop's i++.
Iso6937Step(buf, i, ch) ==
    LET b == buf[i + 1]
        pending == ch = 65535
        sec == IF pending THEN iso6937table_secondary(buf[i], b) ELSE 65535
        ch2 == IF pending /\ sec # 65535 THEN sec ELSE iso6937table_base(b)
    IN  [ch |-> ch2,
         emit |-> IF ch2 = 65535 THEN <<>> ELSE <<ch2>>,
         secondary |-> pending,
         reprocessed |-> pending /\ sec = 65535,
         next |-> i + 1]

\* the loop condition of decode_iso6937: (i < length) && buf[i]
Iso6937Guard(buf, length, i) == i < length /\ buf[i + 1] # 0

\* The for loop of decode_iso6937, from index i with pending ch.
RECURSIVE Iso6937Loop(_, _, _, _, _)
Iso6937Loop(buf, length, i, ch, result) ==
    IF Iso6937Guard(buf, length, i)
    THEN LET st == Iso6937Step(buf, i, ch)
         IN  Iso6937Loop(buf, length, st.next, st.ch, result \o st.emit)
    ELSE result

\* The iterations of that loop in order, each with its index, the pending ch
\* it started with and what the body did.
RECURSIVE Iso6937Steps(_, _, _, _)
Iso6937Steps(buf, length, i, ch) ==
    IF Iso6937Guard(buf, length, i)
    THEN LET st == Iso6937Step(buf, i, ch)
         IN  <<[i |-> i, before |-> ch, ch |-> st.ch, emit |-> st.emit,
                secondary |-> st.secondary]>>
             \o Iso6937Steps(buf, length, st.next, st.ch)
    ELSE <<>>

decode_iso6937(buf, length) ==
    Decoded("iso6937", 0, Iso6937Loop(buf, length, 0, 32, <<>>))

----------------------------------------------------------------------------
\* decode_text: the codepage selector / decoder

\* CodepageIndex with the table offset one too large
CodepageIndex_off(b0) == 5 + b0

\* the table index a leading byte 0x01..0x0B selects
CodepageIndex(b0) == 4 + b0

\* the 16 bit table index carried by the two bytes after a leading 0x10
ExplicitCode(b1, b2) == b1 * 256 + b2

\* the code page chosen for an explicit code: a table entry, or the local
\* encoding
ExplicitIsTable(code) == code <= 15

\* One call record: the text returned, the decoder chosen (with the table
\* index used, -1 when no table entry is), the offset and count handed to
\* it, and the indices of buf that decode_text itself read.
decode_text(buf, length, env) ==
    LET b0 == At(buf, 0, env) IN
    IF b0 >= 32
    THEN [buf |-> buf, result |-> decode_iso6937(buf, length),
          dec |-> "iso6937", idx |-> -1, page |-> 0,
          off |-> 0, cnt |-> length, rd |-> {0},
          steps |-> Iso6937Steps(buf, length, 0, 32)]
    ELSE IF b0 >= 1 /\ b0 <= 11
    THEN LET idx == CodepageIndex(b0) IN
         [buf |-> buf,
          result |-> External("iso8859", s_iso8859Codecs(idx), buf, 1,
                              length - 1, env),
          dec |-> "iso8859", idx |-> idx, page |-> s_iso8859Codecs(idx),
          off |-> 1, cnt |-> length - 1, rd |-> {0},
          steps |-> <<>>]
    ELSE IF b0 = 16
    THEN LET code == ExplicitCode(At(buf, 1, env), At(buf, 2, env)) IN
         IF ExplicitIsTable(code)
         THEN [buf |-> buf,
               result |-> External("iso8859", s_iso8859Codecs(code), buf, 3,
                                   length - 3, env),
               dec |-> "iso8859", idx |-> code,
               page |-> s_iso8859Codecs(code),
               off |-> 3, cnt |-> length - 3, rd |-> {0, 1, 2},
               steps |-> <<>>]
         ELSE [buf |-> buf,
               result |-> External("local8Bit", 0, buf, 3, length - 3, env),
               dec |-> "local8Bit", idx |-> -1, page |-> 0,
               off |-> 3, cnt |-> length - 3, rd |-> {0, 1, 2},
               steps |-> <<>>]
    ELSE IF b0 = 21
    THEN [buf |-> buf,
          result |-> External("utf8", 0, buf, 1, length - 1, env),
          dec |-> "utf8", idx |-> -1, page |-> 0,
          off |-> 1, cnt |-> length - 1, rd |-> {0},
          steps |-> <<>>]
    ELSE [buf |-> buf,
          result |-> External("local8Bit", 0, buf, 1, length - 1, env),
          dec |-> "local8Bit", idx |-> -1, page |-> 0,
          off |-> 1, cnt |-> length - 1, rd |-> {0},
          steps |-> <<>>]

----------------------------------------------------------------------------
\* dvb_decode_text: the top-level text decoder

\* What a call did.  exit names the return statement taken; reads holds the
\* indices of src the entry points themselves read; scratch is dst[0..length)
\* and alloc the size dst was allocated with; selCalls, huffCalls and
\* textCalls list the calls of decode_text, freesat_huffman_to_string and
\* dvb_decode_text in order; captured is what the emphasis scan copied.
NoTrace ==
    [result |-> Empty, exit |-> "none", reads |-> {},
     stripRan |-> FALSE, ucs2Ran |-> FALSE, scanRan |-> FALSE,
     scratch |-> <<>>, alloc |-> 0, captured |-> <<>>,
     selCalls |-> <<>>, huffCalls |-> <<>>, textCalls |-> <<>>]

\* Ucs2Count without the leading selector byte subtracted
Ucs2Count_sel(raw_length) == raw_length \div 2

\* the number of UCS-2 code units of a field of raw_length bytes
Ucs2Count(raw_length) == (raw_length - 1) \div 2

\* the for loop filling to[]: to[i] = (src[1 + i*2] << 8) + src[1 + i*2 + 1]
RECURSIVE Ucs2Loop(_, _, _, _, _)
Ucs2Loop(s, length, i, to, env) ==
    IF i < length
    THEN Ucs2Loop(s, length, i + 1,
                  [units |-> Append(to.units,
                                    (At(s, 1 + i * 2, env) * 256
                                     + At(s, 1 + i * 2 + 1, env)) % 65536),
                   reads |-> to.reads \cup {1 + i * 2, 1 + i * 2 + 1}],
                  env)
    ELSE to

\* IsMultiByteText with the upper range ending one byte early
IsMultiByteText_short(b) == (17 < b /\ b < 21) \/ (21 < b /\ b < 30)

\* the leading bytes dvb_decode_text refuses as multi-byte encodings
IsMultiByteText(b) == (17 < b /\ b < 21) \/ (21 < b /\ b < 31)

\* SpliceOverride with a strict comparison against 0x20
SpliceOverride_strict(o, b0) == o.ptr /\ b0 > 32

\* whether the override is copied to the front of dst
SpliceOverride(o, b0) == o.ptr /\ b0 >= 32

\* StripByte dropping CR/LF like the other control bytes
StripByte_nocrlf(dst, b) ==
    IF b < 128 \/ b > 159 THEN Append(dst, b) ELSE dst

\* the body of the stripping loop for one byte b: keep it, turn CR/LF (0x8A)
\* into a space, or drop it
StripByte(dst, b) ==
    IF b < 128 \/ b > 159 THEN Append(dst, b)
    ELSE IF b = 138 THEN Append(dst, 32)
    ELSE dst

\* the stripping loop from index i
RECURSIVE StripLoop(_, _, _)
StripLoop(s, i, dst) ==
    IF i < Len(s) THEN StripLoop(s, i + 1, StripByte(dst, s[i + 1])) ELSE dst

\* IsEmptyField never recognising the empty field
IsEmptyField_never(raw_length) == raw_length < 0

\* if (!raw_length) return "";
IsEmptyField(raw_length) == raw_length = 0

\* HuffmanInput with the 0x1F marker skipped
HuffmanInput_skip(s, raw_length) == SubSeq(s, 2, raw_length)

\* the bytes handed to freesat_huffman_to_string: src, raw_length
HuffmanInput(s, raw_length) == SubSeq(s, 1, raw_length)

\* TextAlloc sized for the field alone
TextAlloc_field(raw_length, olen) == raw_length

\* the size of dst: new unsigned char[raw_length + encoding_override_length]
TextAlloc(raw_length, olen) == raw_length + olen

dvb_decode_text(s, o, env) ==
    LET raw_length == Len(s)
        b0 == At(s, 0, env)
        called == [NoTrace EXCEPT !.textCalls = <<[src |-> s, ovr |-> o]>>]
    IN
    IF IsEmptyField(raw_length)
    THEN [called EXCEPT !.exit = "empty"]
    ELSE IF b0 = 31
    THEN [called EXCEPT !.exit = "huffman", !.reads = {0},
                        !.huffCalls = <<HuffmanInput(s, raw_length)>>,
                        !.result = freesat_huffman_to_string(
                                       HuffmanInput(s, raw_length),
                                       Len(HuffmanInput(s, raw_length)))]
    ELSE IF b0 = 17
    THEN LET to == Ucs2Loop(s, Ucs2Count(raw_length), 0,
                            [units |-> <<>>, reads |-> {0}], env)
         IN  [called EXCEPT !.exit = "ucs2", !.reads = to.reads,
                            !.ucs2Ran = TRUE,
                            !.result = Decoded("ucs2", 0, to.units)]
    ELSE IF IsMultiByteText(b0)
    THEN [called EXCEPT !.exit = "multibyte", !.reads = {0}]
    ELSE LET pre == IF SpliceOverride(o, b0)
                    THEN SubSeq(o.bytes, 1, o.len) ELSE <<>>
             dst == StripLoop(s, 0, pre)
             length == Len(dst)
             stripped == [called EXCEPT !.reads = {0} \cup (0 .. (raw_length - 1)),
                                        !.stripRan = TRUE,
                                        !.scratch = dst,
                                        !.alloc = TextAlloc(raw_length, o.len)]
         IN  IF length = 0
             THEN [stripped EXCEPT !.exit = "nothing"]
             ELSE LET d == decode_text(dst, length, env) IN
                  [stripped EXCEPT !.exit = "decoded",
                                   !.selCalls = <<d>>,
                                   !.result = d.result]

----------------------------------------------------------------------------
\* dvb_decode_short_name: the short-name variant

\* the longest short name, in bytes
ShortNameMax == 50

\* TooLongForShortName refusing the limit itself
TooLongForShortName_ge(raw_length) == raw_length >= ShortNameMax

TooLongForShortName(raw_length) == raw_length > ShortNameMax

\* IsMultiByteShortName with the ranges of dvb_decode_text
IsMultiByteShortName_text(b) == (17 < b /\ b < 21) \/ (21 < b /\ b < 31)

\* the leading bytes dvb_decode_short_name refuses as multi-byte encodings
IsMultiByteShortName(b) == (16 < b /\ b < 21) \/ (21 < b /\ b < 32)

\* the body of the inner emphasis loop for one byte b
EmphasisByte(dst, b) ==
    IF b < 128 \/ b > 159 THEN Append(dst, b)
    ELSE IF b = 138 THEN Append(dst, 32)
    ELSE dst

\* EmphasisInner ending a span at the next emphasis-on mark (0x86)
RECURSIVE EmphasisInner_on(_, _, _)
EmphasisInner_on(s, i, dst) ==
    LET j == i + 1 IN
    IF j < Len(s) /\ s[j + 1] # 134
    THEN EmphasisInner_on(s, j, EmphasisByte(dst, s[j + 1]))
    ELSE [i |-> j, dst |-> dst]

\* while ((++i < raw_length) && (src[i] != 0x87)): returns i and dst as the
\* loop leaves them
RECURSIVE EmphasisInner(_, _, _)
EmphasisInner(s, i, dst) ==
    LET j == i + 1 IN
    IF j < Len(s) /\ s[j + 1] # 135
    THEN EmphasisInner(s, j, EmphasisByte(dst, s[j + 1]))
    ELSE [i |-> j, dst |-> dst]

\* for (uint i = 0; i < raw_length; i++) if (src[i] == 0x86) ...
RECURSIVE EmphasisScan(_, _, _)
EmphasisScan(s, i, dst) ==
    IF i < Len(s)
    THEN IF s[i + 1] = 134
         THEN LET r == EmphasisInner(s, i, dst)
              IN  EmphasisScan(s, r.i + 1, r.dst)
         ELSE EmphasisScan(s, i + 1, dst)
    ELSE dst

\* FallBackToText taken whatever was captured
FallBackToText_always(length) == TRUE

\* (!length) ? dvb_decode_text(src, raw_length) : decode_text(dst, length)
FallBackToText(length) == length = 0

\* the size of dst: new unsigned char[raw_length]
ShortNameAlloc(raw_length) == raw_length

dvb_decode_short_name(s, env) ==
    LET raw_length == Len(s) IN
    IF TooLongForShortName(raw_length)
    THEN [NoTrace EXCEPT !.exit = "toolong"]
    ELSE IF IsMultiByteShortName(At(s, 0, env))
    THEN [NoTrace EXCEPT !.exit = "multibyte", !.reads = {0}]
    ELSE LET dst == EmphasisScan(s, 0, <<>>)
             length == Len(dst)
         IN  IF FallBackToText(length)
             THEN LET t == dvb_decode_text(s, NoOverride, env) IN
                  [t EXCEPT !.reads = t.reads \cup {0} \cup (0 .. (raw_length - 1)),
                            !.scanRan = TRUE,
                            !.captured = dst,
                            !.alloc = ShortNameAlloc(raw_length)]
             ELSE LET d == decode_text(dst, length, env) IN
                  [NoTrace EXCEPT !.exit = "decoded",
                                  !.reads = 0 .. (raw_length - 1),
                                  !.scanRan = TRUE,
                                  !.captured = dst,
                                  !.alloc = ShortNameAlloc(raw_length),
                                  !.selCalls = <<d>>,
                                  !.result = d.result]

----------------------------------------------------------------------------
\* The state the other specifications start from

\* no loop is running
NoLoop == [kind |-> "none", was |-> "none", buf |-> <<>>, limit |-> 0,
           i |-> 0, prev |-> -1, n |-> 0,
           ch |-> 32, out |-> <<>>, dst |-> <<>>, alloc |-> 0]

\* the static members of ContentDescriptor as constructed, no caller yet
\* threads that call ContentDescriptor::GetDescription
NumThreads == 3
Threads == 1 .. NumThreads

\* entries ContentDescriptor::Init writes to s_categoryDesc
CatEntries == 2
CatKeys == 1 .. CatEntries

\* s_categoryDesc empty, s_categoryDescExists false, s_categoryLock free
\* (lock is the thread that holds s_categoryLock, 0 when free; inits counts
\* the times Init went on to write the map; next is the entry Init writes
\* next; partial records a lookup in a map that lacked an entry)
NoCat == [written |-> {}, exists |-> FALSE, lock |-> 0, inits |-> 0,
          next |-> 1, partial |-> FALSE,
          pc |-> [t \in Threads |-> "idle"]]

\* no run of Items
\* longest items area, largest length byte, and the index beyond which a
\* read outside the descriptor is taken to fault
MaxItems == 4
MaxItemLen == 2
MaxIndex == 6
ItemLens == 0 .. MaxItemLen

\* the items areas: LengthOfItems() bytes from m_data[7] on
Areas == UNION {[1 .. n -> ItemLens] : n \in 0 .. MaxItems}

\* no call of ExtendedEventDescriptor::Items in progress (area is the items
\* area, index the running index, n the items inserted, wrapped records a
\* loop test made with index above LengthOfItems(), beyond a read at or
\* after the end of the items area)
NoItems == [pc |-> "none", area |-> <<>>, index |-> 0, n |-> 0,
            wrapped |-> FALSE, beyond |-> FALSE]

----------------------------------------------------------------------------
\* The caller

Init ==
    /\ src = <<>>
    /\ ovr = NoOverride
    /\ op = "none"
    /\ pc = "input"
    /\ tr = NoTrace
    /\ loop = NoLoop
    /\ cat = NoCat
    /\ items = NoItems

\* the caller adds one byte to the field
AppendByte(b) ==
    /\ pc = "input"
    /\ Len(src) < MaxLen
    /\ b \in (IF src = <<>> THEN FirstBytes ELSE BodyBytes)
    /\ src' = Append(src, b)
    /\ UNCHANGED <<ovr, op, pc, tr, loop, cat, items>>

\* the caller takes one of the longer literal fields
TakeExample(e) ==
    /\ pc = "input"
    /\ src = <<>>
    /\ src' = e
    /\ pc' = "ready"
    /\ UNCHANGED <<ovr, op, tr, loop, cat, items>>

\* the caller pads a short prefix with letters up to n bytes
PadTo(n) ==
    /\ pc = "input"
    /\ Len(src) <= PadPrefix
    /\ src' = src \o [k \in 1 .. (n - Len(src)) |-> 65]
    /\ pc' = "ready"
    /\ UNCHANGED <<ovr, op, tr, loop, cat, items>>

Call_dvb_decode_text(o, env) ==
    /\ pc \in {"input", "ready"}
    /\ ovr' = o
    /\ op' = "text"
    /\ pc' = "done"
    /\ tr' = dvb_decode_text(src, o, env)
    /\ UNCHANGED <<src, loop, cat, items>>

Call_dvb_decode_short_name(env) ==
    /\ pc \in {"input", "ready"}
    /\ ovr' = NoOverride
    /\ op' = "short"
    /\ pc' = "done"
    /\ tr' = dvb_decode_short_name(src, env)
    /\ UNCHANGED <<src, loop, cat, items>>

\* the call has returned; the caller starts on another field
NextField ==
    /\ pc = "done"
    /\ src' = <<>>
    /\ ovr' = NoOverride
    /\ op' = "none"
    /\ pc' = "input"
    /\ tr' = NoTrace
    /\ UNCHANGED <<loop, cat, items>>

Next ==
    \/ \E b \in FirstBytes \cup BodyBytes : AppendByte(b)
    \/ \E e \in Examples : TakeExample(e)
    \/ \E n \in {ShortNameMax, ShortNameMax + 1} : PadTo(n)
    \/ \E o \in Overrides, env \in Envs : Call_dvb_decode_text(o, env)
    \/ \E env \in Envs : Call_dvb_decode_short_name(env)
    \/ NextField

Spec == Init /\ [][Next]_vars

----------------------------------------------------------------------------
\* The loops of the decoders, one iteration at a time.
\*
\* loop.kind is the loop that is running ("end" once it is left, loop.was
\* then names it), loop.buf the buffer it walks, loop.i its index, loop.prev
\* the index the last iteration started from, loop.n the iterations made,
\* loop.dst the scratch buffer as written so far (its length is the write
\* index), loop.alloc the size it was allocated with, loop.out the text
\* built so far.

\* dvb_decode_text reaches its stripping loop (lines 59-94)
StartStrip(o) ==
    /\ pc \in {"input", "ready"}
    /\ src # <<>>
    /\ src[1] # 31 /\ src[1] # 17 /\ ~IsMultiByteText(src[1])
    /\ ovr' = o
    /\ op' = "text"
    /\ pc' = "loop"
    /\ loop' = [NoLoop EXCEPT
                  !.kind = "strip", !.buf = src, !.limit = Len(src),
                  !.dst = IF SpliceOverride(o, src[1])
                          THEN SubSeq(o.bytes, 1, o.len) ELSE <<>>,
                  !.alloc = TextAlloc(Len(src), o.len)]
    /\ UNCHANGED <<src, tr, cat, items>>

\* one iteration of the stripping loop (lines 97-108)
StripIter ==
    /\ loop.kind = "strip"
    /\ loop.i < loop.limit
    /\ loop' = [loop EXCEPT
                  !.dst = StripByte(loop.dst, loop.buf[loop.i + 1]),
                  !.prev = loop.i, !.i = loop.i + 1, !.n = loop.n + 1]
    /\ UNCHANGED <<src, ovr, op, pc, tr, cat, items>>

\* dvb_decode_text reaches its UCS-2 loop (lines 66-69)
StartUcs2 ==
    /\ pc \in {"input", "ready"}
    /\ src # <<>>
    /\ src[1] = 17
    /\ op' = "text"
    /\ pc' = "loop"
    /\ loop' = [NoLoop EXCEPT
                  !.kind = "ucs2", !.buf = src,
                  !.limit = Ucs2Count(Len(src))]
    /\ UNCHANGED <<src, ovr, tr, cat, items>>

\* one iteration of the UCS-2 loop (lines 70-71)
Ucs2Iter ==
    /\ loop.kind = "ucs2"
    /\ loop.i < loop.limit
    /\ \E env \in Envs :
         loop' = [loop EXCEPT
                    !.out = Ucs2Loop(loop.buf, loop.i + 1, loop.i,
                                     [units |-> loop.out, reads |-> {}],
                                     env).units,
                    !.prev = loop.i, !.i = loop.i + 1, !.n = loop.n + 1]
    /\ UNCHANGED <<src, ovr, op, pc, tr, cat, items>>

\* dvb_decode_short_name reaches its emphasis scan (lines 177-196)
StartEmphasis ==
    /\ pc \in {"input", "ready"}
    /\ ~TooLongForShortName(Len(src))
    /\ \E env \in Envs : ~IsMultiByteShortName(At(src, 0, env))
    /\ op' = "short"
    /\ pc' = "loop"
    /\ loop' = [NoLoop EXCEPT
                  !.kind = "emphO", !.buf = src, !.limit = Len(src),
                  !.alloc = ShortNameAlloc(Len(src))]
    /\ UNCHANGED <<src, ovr, tr, cat, items>>

\* the while condition (++i < raw_length) && (src[i] != 0x87) evaluated from
\* index i, with the loop body when it holds and the i++ of the for loop when
\* it does not
EmphasisWhile(l) ==
    LET j == l.i + 1 IN
    IF j < l.limit /\ l.buf[j + 1] # 135
    THEN [l EXCEPT !.kind = "emphI",
                   !.dst = EmphasisByte(l.dst, l.buf[j + 1]),
                   !.prev = l.i, !.i = j, !.n = l.n + 1]
    ELSE [l EXCEPT !.kind = "emphO",
                   !.prev = l.i, !.i = j + 1, !.n = l.n + 1]

\* one iteration of the for loop of the emphasis scan (lines 199-201), with
\* the first evaluation of the while condition when the byte is 0x86
EmphasisOuterIter ==
    /\ loop.kind = "emphO"
    /\ loop.i < loop.limit
    /\ loop' = IF loop.buf[loop.i + 1] = 134
               THEN EmphasisWhile(loop)
               ELSE [loop EXCEPT !.prev = loop.i, !.i = loop.i + 1,
                                 !.n = loop.n + 1]
    /\ UNCHANGED <<src, ovr, op, pc, tr, cat, items>>

\* one more evaluation of the while condition (lines 203-214)
EmphasisInnerIter ==
    /\ loop.kind = "emphI"
    /\ loop' = EmphasisWhile(loop)
    /\ UNCHANGED <<src, ovr, op, pc, tr, cat, items>>

\* decode_text hands the stripped or captured bytes to decode_iso6937
\* (lines 112, 144-146, 219)
StartIso ==
    /\ loop.kind = "end"
    /\ loop.was \in {"strip", "emphO"}
    /\ loop.dst # <<>>
    /\ loop.dst[1] >= 32
    /\ loop' = [NoLoop EXCEPT
                  !.kind = "iso", !.buf = loop.dst, !.limit = Len(loop.dst)]
    /\ UNCHANGED <<src, ovr, op, pc, tr, cat, items>>

\* one iteration of the loop of decode_iso6937 (lines 23-48)
Iso6937Iter ==
    /\ loop.kind = "iso"
    /\ Iso6937Guard(loop.buf, loop.limit, loop.i)
    /\ LET st == Iso6937Step(loop.buf, loop.i, loop.ch) IN
       loop' = [loop EXCEPT !.ch = st.ch, !.out = loop.out \o st.emit,
                            !.prev = loop.i, !.i = st.next,
                            !.n = loop.n + 1]
    /\ UNCHANGED <<src, ovr, op, pc, tr, cat, items>>

\* the loop condition fails: the loop is left
LoopExit ==
    /\ \/ loop.kind \in {"strip", "ucs2", "emphO"} /\ ~(loop.i < loop.limit)
       \/ loop.kind = "iso" /\ ~Iso6937Guard(loop.buf, loop.limit, loop.i)
    /\ loop' = [loop EXCEPT !.kind = "end", !.was = loop.kind]
    /\ UNCHANGED <<src, ovr, op, pc, tr, cat, items>>

\* the call returns; the caller starts on another field
LoopReturn ==
    /\ loop.kind = "end"
    /\ src' = <<>>
    /\ ovr' = NoOverride
    /\ op' = "none"
    /\ pc' = "input"
    /\ loop' = NoLoop
    /\ UNCHANGED <<tr, cat, items>>

NextLoops ==
    \/ \E b \in FirstBytes \cup BodyBytes : AppendByte(b)
    \/ \E e \in Examples : TakeExample(e)
    \/ \E n \in {ShortNameMax, ShortNameMax + 1} : PadTo(n)
    \/ \E o \in Overrides : StartStrip(o)
    \/ StripIter
    \/ StartUcs2
    \/ Ucs2Iter
    \/ StartEmphasis
    \/ EmphasisOuterIter
    \/ EmphasisInnerIter
    \/ StartIso
    \/ Iso6937Iter
    \/ LoopExit
    \/ LoopReturn

SpecLoops == Init /\ [][NextLoops]_vars

----------------------------------------------------------------------------
\* ContentDescriptor::GetDescription called from several threads.

\* a thread calls GetDescription
CallGetDescription(t) ==
    /\ cat.pc[t] = "idle"
    /\ cat' = [cat EXCEPT !.pc[t] = "check"]
    /\ UNCHANGED <<src, ovr, op, pc, tr, loop, items>>

\* What the read of s_categoryDescExists outside the lock can give: the read
\* races with the write at the end of Init, so besides the stored value it
\* can give the value of before the write, or the value of the write ahead
\* of the map writes that precede it while Init is running.
FlagReads ==
    {cat.exists}
        \cup (IF cat.exists THEN {FALSE} ELSE {})
        \cup (IF \E u \in Threads : cat.pc[u] = "populate" THEN {TRUE} ELSE {})

\* if (!s_categoryDescExists) Init();
CheckExists(t) ==
    /\ cat.pc[t] = "check"
    /\ \E seen \in FlagReads :
         cat' = [cat EXCEPT !.pc[t] = IF seen THEN "get_lock" ELSE "init_lock"]
    /\ UNCHANGED <<src, ovr, op, pc, tr, loop, items>>

\* QMutexLocker locker(&s_categoryLock) in Init
InitLock(t) ==
    /\ cat.pc[t] = "init_lock"
    /\ cat.lock = 0
    /\ cat' = [cat EXCEPT !.lock = t, !.pc[t] = "init_check"]
    /\ UNCHANGED <<src, ovr, op, pc, tr, loop, items>>

InitSkips_never(exists) == FALSE

\* if (s_categoryDescExists) return;  under the lock
InitSkips(exists) == exists

InitCheck(t) ==
    /\ cat.pc[t] = "init_check"
    /\ cat' = IF InitSkips(cat.exists)
              THEN [cat EXCEPT !.pc[t] = "init_unlock"]
              ELSE [cat EXCEPT !.pc[t] = "populate", !.next = 1,
                               !.inits = cat.inits + 1]
    /\ UNCHANGED <<src, ovr, op, pc, tr, loop, items>>

\* one assignment s_categoryDesc[...] = ...
Populate(t) ==
    /\ cat.pc[t] = "populate"
    /\ cat.next <= CatEntries
    /\ cat' = [cat EXCEPT !.written = cat.written \cup {cat.next},
                          !.next = cat.next + 1]
    /\ UNCHANGED <<src, ovr, op, pc, tr, loop, items>>

\* s_categoryDescExists = true; after the last assignment
SetExists(t) ==
    /\ cat.pc[t] = "populate"
    /\ cat.next > CatEntries
    /\ cat' = [cat EXCEPT !.exists = TRUE, !.pc[t] = "init_unlock"]
    /\ UNCHANGED <<src, ovr, op, pc, tr, loop, items>>

\* Init returns: its locker releases the lock
InitUnlock(t) ==
    /\ cat.pc[t] = "init_unlock"
    /\ cat' = [cat EXCEPT !.lock = 0, !.pc[t] = "get_lock"]
    /\ UNCHANGED <<src, ovr, op, pc, tr, loop, items>>

\* QMutexLocker locker(&s_categoryLock) in GetDescription
GetLock(t) ==
    /\ cat.pc[t] = "get_lock"
    /\ cat.lock = 0
    /\ cat' = [cat EXCEPT !.lock = t, !.pc[t] = "find"]
    /\ UNCHANGED <<src, ovr, op, pc, tr, loop, items>>

\* the lookups s_categoryDesc.find(...)
Find(t) ==
    /\ cat.pc[t] = "find"
    /\ cat' = [cat EXCEPT !.partial = cat.partial \/ cat.written # CatKeys,
                          !.pc[t] = "get_unlock"]
    /\ UNCHANGED <<src, ovr, op, pc, tr, loop, items>>

\* GetDescription returns: its locker releases the lock
GetUnlock(t) ==
    /\ cat.pc[t] = "get_unlock"
    /\ cat' = [cat EXCEPT !.lock = 0, !.pc[t] = "idle"]
    /\ UNCHANGED <<src, ovr, op, pc, tr, loop, items>>

NextCat ==
    \E t \in Threads :
        \/ CallGetDescription(t)
        \/ CheckExists(t)
        \/ InitLock(t)
        \/ InitCheck(t)
        \/ Populate(t)
        \/ SetExists(t)
        \/ InitUnlock(t)
        \/ GetLock(t)
        \/ Find(t)
        \/ GetUnlock(t)

SpecCat == Init /\ [][NextCat]_vars

----------------------------------------------------------------------------
\* ExtendedEventDescriptor::Items, one statement at a time.

LengthOfItems == Len(items.area)

\* uint index = 0;
CallItems(a) ==
    /\ items.pc = "none"
    /\ items' = [NoItems EXCEPT !.pc = "while", !.area = a]
    /\ UNCHANGED <<src, ovr, op, pc, tr, loop, cat>>

\* LengthOfItems() - index >= 2 in unsigned arithmetic: with index above
\* LengthOfItems() the difference wraps to 2^32 - (index - LengthOfItems()),
\* which is at least 2
ItemsRemain(length, index) ==
    IF index <= length THEN length - index >= 2 ELSE TRUE

\* while (LengthOfItems() - index >= 2)
ItemsWhile ==
    /\ items.pc = "while"
    /\ items' = [items EXCEPT
                   !.pc = IF ItemsRemain(LengthOfItems, items.index)
                          THEN "description" ELSE "return",
                   !.wrapped = items.wrapped \/ items.index > LengthOfItems]
    /\ UNCHANGED <<src, ovr, op, pc, tr, loop, cat>>

\* dvb_decode_text(&m_data[8 + index], m_data[7 + index]);
\* index += 1 + m_data[7 + index];
\* A length byte at or after the end of the items area is whatever follows
\* the area; far enough outside the descriptor the read can also fault.
ItemsText(then) ==
    \/ /\ items.index < LengthOfItems
       /\ LET length == items.area[items.index + 1] IN
          items' = [items EXCEPT
                      !.pc = then,
                      !.index = items.index + 1 + length,
                      !.n = IF then = "while" THEN items.n + 1 ELSE items.n,
                      !.beyond = items.beyond
                                 \/ items.index + length >= LengthOfItems]
    \/ /\ items.index >= LengthOfItems
       /\ items.index <= MaxIndex
       /\ \E length \in ItemLens :
            items' = [items EXCEPT
                        !.pc = then,
                        !.index = items.index + 1 + length,
                        !.n = IF then = "while" THEN items.n + 1 ELSE items.n,
                        !.beyond = TRUE]
    \/ /\ items.index > MaxIndex
       /\ items' = [items EXCEPT !.pc = "fault", !.beyond = TRUE]

\* lines 792-793
ItemsDescription ==
    /\ items.pc = "description"
    /\ ItemsText("item")
    /\ UNCHANGED <<src, ovr, op, pc, tr, loop, cat>>

\* lines 794-796
ItemsItem ==
    /\ items.pc = "item"
    /\ ItemsText("while")
    /\ UNCHANGED <<src, ovr, op, pc, tr, loop, cat>>

\* return ret; or the process ends on the fault
ItemsReturn ==
    /\ items.pc \in {"return", "fault"}
    /\ items' = NoItems
    /\ UNCHANGED <<src, ovr, op, pc, tr, loop, cat>>

NextItems ==
    \/ \E a \in Areas : CallItems(a)
    \/ ItemsWhile
    \/ ItemsDescription
    \/ ItemsItem
    \/ ItemsReturn

SpecItems == Init /\ [][NextItems]_vars

----------------------------------------------------------------------------
\* Properties

TextDone == pc = "done" /\ op = "text"
ShortDone == pc = "done" /\ op = "short"

\* the bytes a raw byte leaves in the stripped field: itself, a space for
\* CR/LF (0x8A), nothing for the other bytes of 0x80..0x9F
StrippedImage(b) ==
    IF b \in 128 .. 159 THEN (IF b = 138 THEN <<32>> ELSE <<>>) ELSE <<b>>

\* the stripped field: the images of its bytes, in order
RECURSIVE Stripped(_)
Stripped(s) ==
    IF s = <<>> THEN <<>> ELSE StrippedImage(Head(s)) \o Stripped(Tail(s))

\* no collaborator and no pass of the decoder ran
NothingRan ==
    /\ ~tr.stripRan
    /\ ~tr.ucs2Ran
    /\ tr.scratch = <<>>
    /\ tr.selCalls = <<>>
    /\ tr.huffCalls = <<>>

\* C1: dvb_decode_text on a field whose first byte is 0x12..0x14 or
\* 0x16..0x1E returns the empty string, whatever the length and the override,
\* and runs neither the control stripper nor decode_text.
C1_MultiByteIsEmpty ==
    (TextDone /\ Len(src) >= 1 /\ src[1] \in (18 .. 20) \cup (22 .. 30))
        => (tr.result = Empty /\ NothingRan)

C1_Witness ==
    /\ TextDone
    /\ Len(src) = 3
    /\ src[1] = 30
    /\ ovr.ptr /\ ovr.len = 3
    /\ tr.result = Empty

\* C2: the stripping pass of dvb_decode_text writes, after whatever was
\* spliced in front, exactly the images of the raw bytes in order: bytes
\* outside 0x80..0x9F unchanged, 0x8A as one 0x20, the rest of 0x80..0x9F
\* nothing; <<0x41, 0x8A, 0x85, 0x42>> gives <<0x41, 0x20, 0x42>>.
C2_StripMapsByteByByte ==
    (TextDone /\ tr.stripRan)
        => /\ Len(tr.scratch) >= Len(Stripped(src))
           /\ SubSeq(tr.scratch,
                     Len(tr.scratch) - Len(Stripped(src)) + 1,
                     Len(tr.scratch)) = Stripped(src)
           /\ (src = <<65, 138, 133, 66>> /\ ~ovr.ptr)
                  => tr.scratch = <<65, 32, 66>>

C2_Witness ==
    /\ TextDone
    /\ tr.stripRan
    /\ src = <<65, 138, 133, 66>>
    /\ tr.scratch = <<65, 32, 66>>

\* C3: the override is copied to the front of the scratch buffer exactly when
\* one is supplied and the first raw byte is >= 0x20; the scratch buffer is
\* then the override bytes followed by the stripped field, of length override
\* length + surviving bytes, and otherwise the stripped field alone.
C3_OverrideSplicedIffDefault ==
    (TextDone /\ tr.stripRan)
        => LET survivors == Len(SelectSeq(src, LAMBDA b : b \notin 128 .. 159 \/ b = 138))
           IN  IF ovr.ptr /\ src[1] >= 32
               THEN /\ tr.scratch = ovr.bytes \o Stripped(src)
                    /\ Len(tr.scratch) = ovr.len + survivors
               ELSE /\ tr.scratch = Stripped(src)
                    /\ Len(tr.scratch) = survivors

C3_Witness ==
    /\ TextDone
    /\ tr.stripRan
    /\ ovr.ptr /\ ovr.bytes = <<16, 0, 1>>
    /\ Len(src) = 3 /\ src[1] = 65 /\ src[2] = 133
    /\ SubSeq(tr.scratch, 1, 4) = <<16, 0, 1, 65>>
    /\ Len(tr.scratch) = 5

\* C4: dvb_decode_text on a field of n >= 1 bytes starting with 0x11 returns
\* exactly (n - 1) div 2 code units, the k-th (from 0) being
\* raw[1 + 2k] * 256 + raw[2 + 2k]; an odd trailing byte is ignored, nothing
\* is stripped, the override plays no part and no byte at index >= n is read.
C4_Ucs2BigEndianPairs ==
    (TextDone /\ Len(src) >= 1 /\ src[1] = 17)
        => LET n == Len(src)
               units == [k \in 1 .. ((n - 1) \div 2) |->
                            src[2 * k] * 256 + src[2 * k + 1]]
           IN  /\ tr.result.data = units
               /\ Len(tr.result.data) = (n - 1) \div 2
               /\ tr.result.dec = (IF n < 3 THEN "none" ELSE "ucs2")
               /\ \A i \in tr.reads : i < n
               /\ ~tr.stripRan
               /\ tr.scratch = <<>>
               /\ tr.selCalls = <<>>
               /\ tr.huffCalls = <<>>

C4_Witness ==
    /\ TextDone
    /\ src = <<17, 0, 65, 138, 66, 153>>
    /\ ovr.ptr /\ ovr.len = 3
    /\ tr.result.data = <<65, 35394>>

\* C5: whenever decode_text is handed a buffer starting with 0x10, the two
\* bytes it reads after it are bytes of that buffer and form the big-endian
\* value code; the bytes from offset 3 to the end are decoded with code page
\* code when code <= 15 and with the local encoding otherwise, and no code
\* makes the call fail.
C5_ExplicitCodeSelectsPage ==
    \A n \in 1 .. Len(tr.selCalls) :
        LET d == tr.selCalls[n] IN
        d.buf[1] = 16
            => /\ Len(d.buf) >= 3
               /\ LET code == d.buf[2] * 256 + d.buf[3]
                      rest == SubSeq(d.buf, 4, Len(d.buf))
                  IN  d.result = IF code <= 15
                                 THEN Decoded("iso8859",
                                              IF code = 0 THEN 1 ELSE code,
                                              rest)
                                 ELSE Decoded("local8Bit", 0, rest)

\* The same selection restricted to buffers that hold the two code bytes
\* (3 bytes or more): there the code page is chosen as C5 says.
ExplicitCodeFromThreeBytes ==
    \A n \in 1 .. Len(tr.selCalls) :
        LET d == tr.selCalls[n] IN
        (d.buf[1] = 16 /\ Len(d.buf) >= 3)
            => LET code == d.buf[2] * 256 + d.buf[3]
                   rest == SubSeq(d.buf, 4, Len(d.buf))
               IN  /\ d.rd \subseteq 0 .. (Len(d.buf) - 1)
                   /\ d.off = 3
                   /\ d.cnt = Len(d.buf) - 3
                   /\ d.result = IF code <= 15
                                 THEN Decoded("iso8859",
                                              IF code = 0 THEN 1 ELSE code,
                                              rest)
                                 ELSE Decoded("local8Bit", 0, rest)

\* C6: whenever decode_text is handed a buffer whose first byte b is in
\* 0x01..0x0B, the code page used is table entry 4 + b, which lies in 5..15,
\* and exactly the length - 1 bytes after the selector are decoded through
\* it: the selector itself is never part of the text.
C6_ImplicitPageInTable ==
    \A n \in 1 .. Len(tr.selCalls) :
        LET d == tr.selCalls[n] IN
        d.buf[1] \in 1 .. 11
            => /\ d.idx = 4 + d.buf[1]
               /\ d.idx \in 5 .. 15
               /\ d.dec = "iso8859"
               /\ d.off = 1
               /\ d.cnt = Len(d.buf) - 1
               /\ d.result = Decoded("iso8859", 4 + d.buf[1], Tail(d.buf))

C6_Witness ==
    /\ TextDone
    /\ Len(tr.selCalls) = 1
    /\ tr.selCalls[1].buf = <<11, 65, 193>>
    /\ tr.result = [dec |-> "iso8859", page |-> 15, data |-> <<65, 193>>]

\* C7: dvb_decode_text on a field starting with 0x1F calls the vendor
\* decompressor exactly once, on the whole raw field with its 0x1F, and
\* returns what it returns, whatever the other bytes and the override;
\* nothing is stripped, spliced or selected.
C7_HuffmanGetsWholeField ==
    (TextDone /\ Len(src) >= 1 /\ src[1] = 31)
        => /\ tr.huffCalls = <<src>>
           /\ tr.result = [dec |-> "huffman", page |-> 0, data |-> src]
           /\ ~tr.stripRan
           /\ ~tr.ucs2Ran
           /\ tr.scratch = <<>>
           /\ tr.selCalls = <<>>

C7_Witness ==
    /\ TextDone
    /\ src = <<31, 138, 134>>
    /\ ovr.ptr /\ ovr.len = 3
    /\ tr.huffCalls = <<src>>

\* C8: dvb_decode_text with raw_length 0 returns the empty string at once,
\* whatever the override: it reads no byte of the field and runs no pass and
\* no collaborator.
C8_EmptyFieldReadsNothing ==
    (TextDone /\ Len(src) = 0)
        => (tr.result = Empty /\ tr.reads = {} /\ NothingRan)

C8_Witness ==
    /\ TextDone
    /\ src = <<>>
    /\ ovr.ptr /\ ovr.len = 3
    /\ tr.result = Empty

\* C9: dvb_decode_short_name returns the empty string for every field longer
\* than 50 bytes, emphasis spans or not, without looking at it; a field of
\* exactly 50 bytes passes this check (50 letters, or an emphasis mark and 49
\* letters, decode to text).
C9_ShortNameLimit ==
    /\ (ShortDone /\ Len(src) > 50)
           => (tr.result = Empty /\ tr.reads = {} /\ ~tr.scanRan /\ NothingRan)
    /\ (ShortDone /\ Len(src) = 50 /\ src[1] \in {65, 134})
           => (tr.scanRan /\ tr.result # Empty)

C9_Witness ==
    /\ ShortDone
    /\ Len(src) = 51
    /\ src[1] = 134
    /\ src[2] = 65
    /\ tr.result = Empty

C9_WitnessLimit ==
    /\ ShortDone
    /\ Len(src) = 50
    /\ src[1] = 134
    /\ Len(tr.captured) = 49

\* C10: dvb_decode_short_name returns the empty string whenever the first raw
\* byte is 0x11..0x14 or 0x16..0x1F, emphasis span or not; no call of it
\* reaches the vendor decompressor or the UCS-2 path of dvb_decode_text.
C10_ShortNameMultiByteIsEmpty ==
    ShortDone
        => /\ (Len(src) >= 1 /\ src[1] \in (17 .. 20) \cup (22 .. 31))
                  => (tr.result = Empty /\ ~tr.scanRan /\ tr.textCalls = <<>>)
           /\ tr.huffCalls = <<>>
           /\ ~tr.ucs2Ran

C10_Witness ==
    /\ ShortDone
    /\ src = <<17, 134, 65>>
    /\ tr.result = Empty

\* the bytes 0x11..0x14 and 0x16..0x1F, which select multi-byte encodings
MultiByteSelectors == (17 .. 20) \cup (22 .. 31)

\* C12: no call of dvb_decode_text or dvb_decode_short_name hands decode_text
\* a buffer whose first byte selects a multi-byte encoding (0x11..0x14,
\* 0x16..0x1F): such a field is never decoded in part.
C12_NoMultiByteReachesSelector ==
    pc = "done"
        => \A n \in 1 .. Len(tr.selCalls) :
               tr.selCalls[n].buf[1] \notin MultiByteSelectors

\* C13: every call of decode_text reads only bytes of its buffer (indices
\* below length) and hands its decoder a count that is not negative, also
\* for a buffer of 1 or 2 bytes starting with 0x10.
C13_SelectorStaysInBuffer ==
    pc = "done"
        => \A n \in 1 .. Len(tr.selCalls) :
               LET d == tr.selCalls[n] IN
               /\ \A i \in d.rd : i < Len(d.buf)
               /\ d.cnt >= 0

\* C14: dvb_decode_short_name with raw_length 0 returns the empty string
\* without reading any byte of the buffer.
C14_EmptyShortNameReadsNothing ==
    (ShortDone /\ Len(src) = 0)
        => (tr.result = Empty /\ tr.reads = {})

\* C15: in every iteration of decode_iso6937 that starts with the sentinel
\* pending and finds 0xFFFF in secondary[previous][current], base[current] is
\* emitted and the pending state cleared when it is not 0xFFFF; when it is,
\* nothing is emitted, the sentinel stays pending and the next iteration takes
\* current as its accent byte.  The secondary table is consulted exactly in
\* the iterations that start with the sentinel, which have a previous byte.
C15_ReprocessAsFirstByte ==
    pc = "done"
        => \A n \in 1 .. Len(tr.selCalls) :
             LET d == tr.selCalls[n] IN
             \A k \in 1 .. Len(d.steps) :
               LET st == d.steps[k]
                   cur == d.buf[st.i + 1]
               IN  /\ st.secondary = (st.before = 65535)
                   /\ st.secondary => st.i >= 1
                   /\ (st.before = 65535
                       /\ iso6937table_secondary(d.buf[st.i], cur) = 65535)
                        => IF iso6937table_base(cur) # 65535
                           THEN /\ st.emit = <<iso6937table_base(cur)>>
                                /\ st.ch # 65535
                           ELSE /\ st.emit = <<>>
                                /\ st.ch = 65535
                                /\ k < Len(d.steps)
                                     => /\ d.steps[k + 1].i = st.i + 1
                                        /\ d.steps[k + 1].before = 65535
                                        /\ d.steps[k + 1].secondary

C15_Witness ==
    /\ TextDone
    /\ src = <<193, 193, 1>>
    /\ Len(tr.selCalls) = 1
    /\ Len(tr.selCalls[1].steps) = 3
    /\ tr.result.data = <<1>>

\* the bytes between emphasis marks: what follows a 0x86 up to the next 0x87
\* or the end of the field, stripped; inSpan tells whether s starts in a span
RECURSIVE Spans(_, _)
Spans(s, inSpan) ==
    IF s = <<>> THEN <<>>
    ELSE IF inSpan
         THEN IF Head(s) = 135 THEN Spans(Tail(s), FALSE)
              ELSE StrippedImage(Head(s)) \o Spans(Tail(s), TRUE)
         ELSE Spans(Tail(s), Head(s) = 134)

\* C16: the emphasis scan of dvb_decode_short_name captures exactly, in order,
\* the stripped images of the bytes after a 0x86 and before the next 0x87 or
\* the end of the field, over all spans; nothing outside a span and neither
\* mark is captured.
C16_EmphasisCapturesSpans ==
    (ShortDone /\ tr.scanRan) => tr.captured = Spans(src, FALSE)

C16_Witness ==
    /\ ShortDone
    /\ src = <<5, 134, 65, 138, 135, 66>>
    /\ tr.captured = <<65, 32>>

\* C17: a call of dvb_decode_short_name that passes the length and leading
\* byte checks returns what dvb_decode_text returns for the untouched field
\* without override when the scan captured nothing, and what decode_text
\* returns for the captured bytes alone when it captured something.
C17_CapturedOrWholeField ==
    (ShortDone /\ tr.scanRan)
        => LET cap == Spans(src, FALSE) IN
           IF cap = <<>>
           THEN /\ tr.textCalls = <<[src |-> src, ovr |-> NoOverride]>>
                /\ \E env \in Envs :
                       tr.result = dvb_decode_text(src, NoOverride, env).result
           ELSE /\ tr.textCalls = <<>>
                /\ Len(tr.selCalls) = 1
                /\ tr.selCalls[1].buf = cap
                /\ \E env \in Envs :
                       tr.result = decode_text(cap, Len(cap), env).result

C17_Witness ==
    /\ ShortDone
    /\ src = <<5, 134, 65, 138, 135, 66>>
    /\ tr.textCalls = <<>>
    /\ tr.result = [dec |-> "iso6937", page |-> 0, data |-> <<65, 32>>]

C17_WitnessFallBack ==
    /\ ShortDone
    /\ src = <<1, 134, 135>>
    /\ Len(tr.textCalls) = 1
    /\ tr.selCalls[1].buf = <<1>>

\* the loop that is running or was left last
LoopKind == IF loop.kind = "end" THEN loop.was ELSE loop.kind

\* C11: every loop of the decoders (decode_iso6937, the stripping loop, the
\* UCS-2 loop, the emphasis scan with its inner loop) moves its index forward
\* by at least one in every iteration, so no byte is visited twice, also not
\* when decode_iso6937 reprocesses a second byte as a first byte; it makes at
\* most as many iterations as the buffer has bytes, and then ends.
C11_LoopsAdvanceAndEnd ==
    loop.kind # "none"
        => /\ loop.n > 0 => loop.i >= loop.prev + 1
           /\ loop.n <= loop.i
           /\ loop.n <= Len(loop.buf)
           /\ loop.i <= Len(loop.buf) + 1
           /\ loop.kind = "end" \/ ENABLED (StripIter \/ Ucs2Iter
                                            \/ EmphasisOuterIter
                                            \/ EmphasisInnerIter
                                            \/ Iso6937Iter \/ LoopExit)

C11_Witness ==
    /\ loop.kind = "end"
    /\ loop.was = "iso"
    /\ loop.buf = <<193, 193, 1>>
    /\ loop.n = 3
    /\ loop.out = <<1>>

\* C19: at every point of the stripping loop of dvb_decode_text the write
\* index is at most the size dst was allocated with and at most raw length +
\* override length, whether the override is spliced, supplied but not
\* spliced, or absent; at every point of the emphasis scan of
\* dvb_decode_short_name it is at most the allocated size, the raw length.
C19_WriteIndexWithinAllocation ==
    /\ LoopKind = "strip"
           => /\ Len(loop.dst) <= loop.alloc
              /\ Len(loop.dst) <= Len(src) + ovr.len
    /\ LoopKind \in {"emphO", "emphI"}
           => /\ Len(loop.dst) <= loop.alloc
              /\ Len(loop.dst) <= Len(src)

C19_Witness ==
    /\ loop.kind = "end"
    /\ loop.was = "strip"
    /\ ovr.ptr /\ ovr.len = 3
    /\ src[1] = 65
    /\ Len(src) = 3
    /\ Len(loop.dst) = 6
    /\ loop.alloc = 6

\* The loops run at once by dvb_decode_text, dvb_decode_short_name and
\* decode_iso6937 leave what the same loops leave run iteration by iteration.
LoopsAgree ==
    loop.kind = "end"
        => /\ loop.was = "strip"
                => \E env \in Envs :
                       loop.dst = dvb_decode_text(src, ovr, env).scratch
           /\ loop.was = "ucs2"
                => \E env \in Envs :
                       Decoded("ucs2", 0, loop.out)
                           = dvb_decode_text(src, ovr, env).result
           /\ loop.was = "emphO"
                => loop.dst = EmphasisScan(src, 0, <<>>)
           /\ loop.was = "iso"
                => loop.out = Iso6937Loop(loop.buf, Len(loop.buf), 0, 32, <<>>)

\* a thread is writing s_categoryDesc or s_categoryDescExists
Writing(t) == cat.pc[t] = "populate"

\* a thread is reading s_categoryDesc
Reading(t) == cat.pc[t] = "find"

\* C18: under every interleaving of concurrent GetDescription calls the map
\* is populated at most once, and once before any lookup; the exists flag
\* is true only when the map holds every entry; no thread looks up the map
\* while another thread writes it or before it holds every entry.
C18_PopulatedOnceBeforeReads ==
    /\ cat.inits <= 1
    /\ cat.exists => cat.written = CatKeys /\ cat.inits = 1
    /\ ~cat.partial
    /\ \A t \in Threads :
         Reading(t) => /\ cat.written = CatKeys
                       /\ cat.inits = 1
                       /\ \A u \in Threads : ~Writing(u)
    /\ \A t \in Threads :
         Writing(t) => \A u \in Threads \ {t} : ~Writing(u) /\ ~Reading(u)

\* one thread looks up the map while another, which read the flag as false,
\* waits for the lock in Init
C18_Witness ==
    /\ cat.pc[1] = "find"
    /\ cat.pc[2] = "init_lock"
    /\ cat.inits = 1

\* a thread that read the flag as true while Init was writing the map
\* waits for the lock
C18_WitnessEarly ==
    /\ cat.pc[1] = "populate"
    /\ cat.written # CatKeys
    /\ cat.pc[2] = "get_lock"

\* C20: in ExtendedEventDescriptor::Items, for every content of the item
\* length bytes, the index never exceeds LengthOfItems(), the loop test is
\* never made with a difference that wrapped, and nothing is read at or
\* after the end of the items area.
C20_IndexStaysInItems ==
    items.pc # "none"
        => /\ items.index <= LengthOfItems
           /\ ~items.wrapped
           /\ ~items.beyond

\* Items whose length bytes add up to LengthOfItems() are walked within the
\* area: description and item lengths 1 and 0, then 0 and 0.
ItemsWellFormedWalk ==
    (items.area = <<1, 0, 0, 0>> /\ items.pc # "none")
        => /\ items.index <= LengthOfItems
           /\ ~items.wrapped
           /\ ~items.beyond

====
